---- MODULE Spec2Model ----
(***************************************************************************)
(* Model of the SilverBullet Grep Plug (src/grep.ts).                      *)
(*                                                                         *)
(* Strings are sequences of one-character strings, so that slicing,        *)
(* splitting, prefix tests and case folding are computed as the code       *)
(* computes them.  The external tool (git grep, run through shell.run) is  *)
(* a black box: each invocation throws, yields no result object, or yields *)
(* a stdout text chosen by the environment.                                *)
(***************************************************************************)
EXTENDS Integers, Sequences, FiniteSets, TLC

VARIABLES
  datastore,    \* value stored under ["grep", "arguments"]
  handler,      \* the handler that ran last, with its inputs
  grepRun,      \* the grep() call of the last handler: what it logged (line 59),
                \* its shell.run call, its notifications, its regex, its result
  navigated,    \* editor.navigate target of the last handler
  replaced,     \* editor.replaceRange(0, textLength, ...) of the last handler
  served,       \* file handed to the host by the last handler
  fault         \* TRUE when the last handler let an exception escape

vars == <<datastore, handler, grepRun, navigated, replaced, served, fault>>

-----------------------------------------------------------------------------
(* Bounds of the model                                                     *)

\* longest context text of a generated hit line
MaxCtxLen == 3
\* most document groups in a generated ranking output
MaxDocs == 3

-----------------------------------------------------------------------------
(* Strings                                                                 *)

NL == "\n"
Digits == <<"0", "1", "2", "3", "4", "5", "6", "7", "8", "9">>
UpperCase == <<"A", "B", "C", "D", "E", "F", "G", "H", "I", "J", "K", "L", "M",
               "N", "O", "P", "Q", "R", "S", "T", "U", "V", "W", "X", "Y", "Z">>
LowerCase == <<"a", "b", "c", "d", "e", "f", "g", "h", "i", "j", "k", "l", "m",
               "n", "o", "p", "q", "r", "s", "t", "u", "v", "w", "x", "y", "z">>

\* the value JavaScript calls undefined, where a string is expected
Undefined == <<"undefined">>

Drop(s, n) == SubSeq(s, n + 1, Len(s))
Take(s, n) == SubSeq(s, 1, IF n < Len(s) THEN n ELSE Len(s))

startsWith(s, p) == Len(p) <= Len(s) /\ SubSeq(s, 1, Len(p)) = p
endsWith(s, p) == Len(p) <= Len(s) /\ SubSeq(s, Len(s) - Len(p) + 1, Len(s)) = p

\* String.prototype.indexOf, 0-based, -1 when absent
indexOf(s, sep) ==
  LET hits == {i \in 0..(Len(s) - Len(sep)) : SubSeq(s, i + 1, i + Len(sep)) = sep}
  IN  IF hits = {} THEN -1 ELSE CHOOSE i \in hits : \A j \in hits : i <= j

\* String.prototype.lastIndexOf, 0-based, -1 when absent
lastIndexOf(s, sep) ==
  LET hits == {i \in 0..(Len(s) - Len(sep)) : SubSeq(s, i + 1, i + Len(sep)) = sep}
  IN  IF hits = {} THEN -1 ELSE CHOOSE i \in hits : \A j \in hits : i >= j

\* String.prototype.split with a non-empty separator
RECURSIVE split(_, _)
split(s, sep) ==
  LET i == indexOf(s, sep)
  IN  IF i = -1 THEN <<s>>
      ELSE <<Take(s, i)>> \o split(Drop(s, i + Len(sep)), sep)

toLowerChar(c) ==
  IF \E k \in 1..Len(UpperCase) : UpperCase[k] = c
  THEN LowerCase[CHOOSE k \in 1..Len(UpperCase) : UpperCase[k] = c]
  ELSE c

toLowerCase(s) == [i \in 1..Len(s) |-> toLowerChar(s[i])]

isDigit(c) == \E k \in 1..Len(Digits) : Digits[k] = c
digitValue(c) == (CHOOSE k \in 1..Len(Digits) : Digits[k] = c) - 1

\* parseInt of a text that starts with a digit: the leading digits, base 10
RECURSIVE parseIntFrom(_, _)
parseIntFrom(s, acc) ==
  IF s = <<>> \/ ~isDigit(Head(s)) THEN acc
  ELSE parseIntFrom(Tail(s), 10 * acc + digitValue(Head(s)))

parseInt(s) == parseIntFrom(s, 0)

\* Number.prototype.toString().length of a non-negative integer
RECURSIVE numLength(_)
numLength(n) == IF n < 10 THEN 1 ELSE 1 + numLength(n \div 10)

-----------------------------------------------------------------------------
(* Program constants                                                       *)

resultPageSaved == <<"G", "R", "E", "P", " ", "R", "E", "S", "U", "L", "T">>
resultPageVirtual == resultPageSaved \o <<" ", "lens">>

DotMd == <<".", "m", "d">>

-----------------------------------------------------------------------------
(* normalizePath, shouldIgnoreFolder, escapeRegExp                         *)

normalizePath(path) ==
  LET forward == [i \in 1..Len(path) |-> IF path[i] = "\\" THEN "/" ELSE path[i]]
  IN  IF startsWith(forward, <<".", "/">>) THEN Drop(forward, 2) ELSE forward

\* config.ignoreFolders is [set |-> BOOLEAN, list |-> sequence of strings]
\* faulty variant: a "/*" entry is compared like any other entry
shouldIgnoreFolderExact(folderPath, config) ==
  IF ~config.ignoreFolders.set THEN FALSE
  ELSE \E k \in 1..Len(config.ignoreFolders.list) :
         normalizePath(folderPath) = normalizePath(config.ignoreFolders.list[k])

shouldIgnoreFolder(folderPath, config) ==
  IF ~config.ignoreFolders.set THEN FALSE
  ELSE
    LET normalizedPath == normalizePath(folderPath)
        list == config.ignoreFolders.list
    IN  \E k \in 1..Len(list) :
          LET pattern == normalizePath(list[k])
          IN  IF endsWith(pattern, <<"/", "*">>)
              THEN startsWith(normalizedPath, Take(pattern, Len(pattern) - 2))
              ELSE normalizedPath = pattern

RegExpSpecial == {".", "*", "+", "?", "^", "$", "{", "}", "(", ")", "|", "[", "]", "\\"}

RECURSIVE escapeRegExp(_)
escapeRegExp(text) ==
  IF text = <<>> THEN <<>>
  ELSE (IF Head(text) \in RegExpSpecial THEN <<"\\", Head(text)>> ELSE <<Head(text)>>)
       \o escapeRegExp(Tail(text))

-----------------------------------------------------------------------------
(* The pattern engine: RegExp and String.prototype.matchAll                *)
(*                                                                         *)
(* Supported pattern syntax: a backslash followed by a character (that     *)
(* character, literally), "." (any character) and ordinary characters.     *)

RECURSIVE regExpTokens(_)
regExpTokens(source) ==
  IF source = <<>> THEN <<>>
  ELSE IF Head(source) = "\\" /\ Len(source) >= 2
       THEN <<[any |-> FALSE, ch |-> source[2]]>> \o regExpTokens(Drop(source, 2))
  ELSE IF Head(source) = "."
       THEN <<[any |-> TRUE, ch |-> "."]>> \o regExpTokens(Tail(source))
  ELSE <<[any |-> FALSE, ch |-> Head(source)]>> \o regExpTokens(Tail(source))

\* new RegExp(source, flags); new RegExp(undefined) is the empty pattern
RegExp(source, flags) ==
  [tokens |-> IF source = Undefined THEN <<>> ELSE regExpTokens(source),
   flags  |-> flags]

tokenMatches(tok, c, flags) ==
  \/ tok.any
  \/ IF flags = "gi" THEN toLowerChar(tok.ch) = toLowerChar(c) ELSE tok.ch = c

\* does the pattern match at 0-based offset i of text
matchesAt(text, i, regex) ==
  /\ i + Len(regex.tokens) <= Len(text)
  /\ \A k \in 1..Len(regex.tokens) : tokenMatches(regex.tokens[k], text[i + k], regex.flags)

\* text.matchAll(regex): the 0-based start offsets, scanning from lastIndex;
\* after an empty match lastIndex advances by one
RECURSIVE matchAllFrom(_, _, _)
matchAllFrom(text, lastIndex, regex) ==
  LET found == {i \in lastIndex..Len(text) : matchesAt(text, i, regex)}
  IN  IF found = {} THEN <<>>
      ELSE LET i == CHOOSE x \in found : \A y \in found : x <= y
               step == IF Len(regex.tokens) = 0 THEN 1 ELSE Len(regex.tokens)
           IN  <<i>> \o matchAllFrom(text, i + step, regex)

matchAll(text, regex) == matchAllFrom(text, 0, regex)

-----------------------------------------------------------------------------
(* grep (lines 54-210)                                                     *)

NoText == [some |-> FALSE, literal |-> FALSE, pattern |-> <<>>, folder |-> <<>>,
           body |-> <<>>]

NoShell == [called |-> FALSE, ignoreCase |-> FALSE, mode |-> "", pattern |-> <<>>,
            pathspec |-> <<>>, result |-> "none"]

NoRegex == [tokens |-> <<>>, flags |-> ""]

\* no call of grep
NoGrep == [text |-> NoText, flashed |-> <<>>, shell |-> NoShell, regex |-> NoRegex,
           log |-> <<>>, threw |-> FALSE]

\* lines 63-64
smartCaseOf(config) == config.smartCase # "false"

\* lines 66-80: a left or right marker that is missing or "" keeps the default
surroundLeftOf(config) ==
  IF config.surround.kind = "unset" THEN <<">", ">", ">">>
  ELSE IF config.surround.kind = "false" THEN <<>>
  ELSE IF config.surround.left # <<>> THEN config.surround.left
  ELSE <<">", ">", ">">>

surroundRightOf(config) ==
  IF config.surround.kind = "unset" THEN <<"<", "<", "<">>
  ELSE IF config.surround.kind = "false" THEN <<>>
  ELSE IF config.surround.right # <<>> THEN config.surround.right
  ELSE <<"<", "<", "<">>

\* line 82; pattern.toLowerCase() is a TypeError on undefined
caseSensitiveThrows(pattern, config) == smartCaseOf(config) /\ pattern = Undefined

\* faulty variant: the smartCase setting is not consulted
caseSensitiveAlwaysSmart(pattern, config) == toLowerCase(pattern) # pattern

caseSensitiveOf(pattern, config) ==
  IF smartCaseOf(config) THEN toLowerCase(pattern) # pattern ELSE TRUE

\* lines 87-102
gitArgs(pattern, literal, folder, caseSensitive) ==
  [called     |-> TRUE,
   ignoreCase |-> ~caseSensitive,
   mode       |-> IF literal THEN "--fixed-strings" ELSE "--extended-regexp",
   pattern    |-> pattern,
   pathspec   |-> folder \o (IF endsWith(folder, <<"/">>) THEN <<>> ELSE <<"/">>)
                  \o <<"*">> \o DotMd,
   result     |-> "none"]

\* lines 108-110, 123-125
noResultsNote(pattern, literal) ==
  [type |-> "info", message |-> "produced no results",
   subject |-> IF literal THEN "Text" ELSE "Pattern", pattern |-> pattern]

\* lines 115-118
gitErrorNote ==
  [type |-> "error", message |-> "Error running 'git' command, make sure Git is in PATH",
   subject |-> "", pattern |-> <<>>]

\* line 156: /^(\d)+:(\d)+:/
locationMatch(line) ==
  \E i \in 1..Len(line), j \in 1..Len(line) :
    /\ i < j /\ i >= 2 /\ j >= i + 2
    /\ line[i] = ":" /\ line[j] = ":"
    /\ \A k \in 1..(i - 1) : isDigit(line[k])
    /\ \A k \in (i + 1)..(j - 1) : isDigit(line[k])

\* lines 160-163
lineNumOf(line) == parseInt(split(line, <<":">>)[1])

\* faulty variant: the second colon is left in the context
contextOfKeepsColon(line) ==
  Drop(line, numLength(lineNumOf(line)) + Len(split(line, <<":">>)[2]) + 1)

contextOf(line) ==
  Drop(line, numLength(lineNumOf(line)) + Len(split(line, <<":">>)[2]) + 2)

\* lines 165-178: the Matches of one hit line
lineMatches(line, innerRegex, surroundLeft, surroundRight) ==
  LET context == contextOf(line)
      starts  == matchAll(context, innerRegex)
  IN  [n \in 1..Len(starts) |->
        LET start == starts[n]
            end   == starts[n] + Len(innerRegex.tokens)
        IN  [lineNum   |-> lineNumOf(line),
             columnNum |-> start + 1,
             context   |-> Take(context, start) \o surroundLeft
                           \o SubSeq(context, start + 1, end) \o surroundRight
                           \o Drop(context, end)]]

\* lines 154-179: the Matches of one document group
RECURSIVE bodyMatches(_, _, _, _)
bodyMatches(lines, innerRegex, surroundLeft, surroundRight) ==
  IF lines = <<>> THEN <<>>
  ELSE (IF locationMatch(Head(lines))
        THEN lineMatches(Head(lines), innerRegex, surroundLeft, surroundRight)
        ELSE <<>>)
       \o bodyMatches(Tail(lines), innerRegex, surroundLeft, surroundRight)

\* line 144
pageOf(header) == normalizePath(Take(header, Len(header) - 3))

\* line 147
folderPathOf(pageName) == Take(pageName, lastIndexOf(pageName, <<"/">>) + 1)

\* lines 143-152: is the group skipped
\* faulty variant: the result pages are not excluded
groupSkippedKeepsResultPages(header, config) ==
  \/ ~endsWith(header, DotMd)
  \/ shouldIgnoreFolder(folderPathOf(pageOf(header)), config)

groupSkipped(header, config) ==
  \/ ~endsWith(header, DotMd)
  \/ shouldIgnoreFolder(folderPathOf(pageOf(header)), config)
  \/ pageOf(header) = resultPageSaved
  \/ pageOf(header) = resultPageVirtual

\* lines 138-181
RECURSIVE fileMatchesOf(_, _, _, _, _)
fileMatchesOf(fileOutputs, config, innerRegex, surroundLeft, surroundRight) ==
  IF fileOutputs = <<>> THEN <<>>
  ELSE
    LET lines   == split(Head(fileOutputs), <<NL>>)
        matches == bodyMatches(Tail(lines), innerRegex, surroundLeft, surroundRight)
        rest    == fileMatchesOf(Tail(fileOutputs), config, innerRegex,
                                 surroundLeft, surroundRight)
    IN  IF groupSkipped(lines[1], config) THEN rest
        ELSE <<[page |-> pageOf(lines[1]), matches |-> matches]>> \o rest

\* lines 183-186: Array.prototype.sort is stable; the comparator orders by
\* descending matches.length.  An entry goes after every entry that has at
\* least as many matches.
\* faulty variant: an entry goes before the entries with as many matches
comesBeforeStrict(a, b) == Len(a.matches) > Len(b.matches)

comesBefore(a, b) == Len(a.matches) >= Len(b.matches)

RECURSIVE insertSorted(_, _)
insertSorted(sorted, fm) ==
  IF sorted = <<>> THEN <<fm>>
  ELSE IF comesBefore(Head(sorted), fm)
       THEN <<Head(sorted)>> \o insertSorted(Tail(sorted), fm)
       ELSE <<fm>> \o sorted

RECURSIVE sortFileMatches(_)
sortFileMatches(fms) ==
  IF fms = <<>> THEN <<>>
  ELSE insertSorted(sortFileMatches(SubSeq(fms, 1, Len(fms) - 1)), fms[Len(fms)])

\* lines 193-206: one heading line per entry, then one line per match
RECURSIVE renderBody(_)
renderBody(fms) ==
  IF fms = <<>> THEN <<>>
  ELSE
    LET fm == Head(fms)
    IN  <<[line |-> "heading", page |-> fm.page, count |-> Len(fm.matches),
           word |-> IF Len(fm.matches) > 1 THEN "matches" ELSE "match",
           lineNum |-> 0, columnNum |-> 0, context |-> <<>>]>>
        \o [n \in 1..Len(fm.matches) |->
             [line |-> "item", page |-> fm.page, count |-> 0, word |-> "",
              lineNum |-> fm.matches[n].lineNum,
              columnNum |-> fm.matches[n].columnNum,
              context |-> fm.matches[n].context]]
        \o renderBody(Tail(fms))

\* lines 188-209
renderText(pattern, literal, folder, fms) ==
  [some    |-> TRUE,
   literal |-> literal,
   pattern |-> pattern,
   folder  |-> IF folder # <<".">> THEN folder ELSE <<>>,
   body    |-> renderBody(fms)]

\* grep(pattern, literal, folder) under the configuration `config` when the
\* tool answers `res`:
\*   text    the returned text (NoText for undefined)
\*   flashed the notifications, shell the shell.run call, regex the innerRegex,
\*   log     the console.log of line 59, threw whether a TypeError escapes
grep(pattern, literal, folder, config, res) ==
  LET log == <<[pattern |-> pattern, literal |-> literal, folder |-> folder]>>
  IN
  IF caseSensitiveThrows(pattern, config)
  THEN [text |-> NoText, flashed |-> <<>>, shell |-> NoShell, regex |-> NoRegex,
        log |-> log, threw |-> TRUE]
  ELSE
    LET caseSensitive == caseSensitiveOf(pattern, config)
        call == [gitArgs(pattern, literal, folder, caseSensitive)
                   EXCEPT !.result = res.kind]
    IN
    IF res.kind = "throw"
    THEN [text |-> NoText, flashed |-> <<gitErrorNote>>, shell |-> call,
          regex |-> NoRegex, log |-> log, threw |-> FALSE]
    ELSE IF res.kind = "null" \/ res.stdout = <<>>
    THEN [text |-> NoText, flashed |-> <<noResultsNote(pattern, literal)>>,
          shell |-> call, regex |-> NoRegex, log |-> log, threw |-> FALSE]
    ELSE IF literal /\ pattern = Undefined
    THEN [text |-> NoText, flashed |-> <<>>, shell |-> call, regex |-> NoRegex,
          log |-> log, threw |-> TRUE]
    ELSE
      LET innerRegex == RegExp(IF literal THEN escapeRegExp(pattern) ELSE pattern,
                               IF caseSensitive THEN "g" ELSE "gi")
          fms == fileMatchesOf(split(res.stdout, <<NL, NL>>), config, innerRegex,
                               surroundLeftOf(config), surroundRightOf(config))
      IN  [text |-> renderText(pattern, literal, folder, sortFileMatches(fms)),
           flashed |-> <<>>, shell |-> call, regex |-> innerRegex,
           log |-> log, threw |-> FALSE]

-----------------------------------------------------------------------------
(* openGrep, readFileGrepResult, writeFileGrepResult, getFileMetaGrepResult *)

NoArguments == [set |-> FALSE, pattern |-> <<>>, literal |-> FALSE, folder |-> <<>>]

Arguments(pattern, literal, folder) ==
  [set |-> TRUE, pattern |-> pattern, literal |-> literal, folder |-> folder]

NoWrite == [written |-> FALSE, meta |-> "", text |-> NoText]

NoData == [kind |-> "none", message |-> "", text |-> NoText]

NoMeta == [name |-> <<>>, contentType |-> "", size |-> 0, created |-> 0,
           lastModified |-> 0, perm |-> ""]

NoFile == [data |-> NoData, meta |-> NoMeta]

NoResultsText == "Did not produce any results"
CouldNotCallText == "Could not call grep implementation, make sure to only open the result page using Grep Plug commands"

\* lines 269-278
getFileMetaGrepResult(name) ==
  [name |-> name, contentType |-> "text/markdown", size |-> -1, created |-> 0,
   lastModified |-> 0, perm |-> "ro"]

\* lines 262-267
writeFileGrepResult(name) == getFileMetaGrepResult(name)

\* faulty variant: the stored folder is not replayed
readGrepAtRoot(args, config, res) ==
  IF ~args.set THEN [NoGrep EXCEPT !.threw = TRUE]
  ELSE grep(args.pattern, args.literal, <<".">>, config, res)

\* lines 240-242: the call of grep inside the try block; args.pattern on a
\* missing value is a TypeError, like a TypeError escaping grep
readGrep(args, config, res) ==
  IF ~args.set THEN [NoGrep EXCEPT !.threw = TRUE]
  ELSE grep(args.pattern, args.literal, args.folder, config, res)

\* faulty variant: one placeholder for both outcomes without text
readTextOnePlaceholder(g) ==
  IF g.text.some /\ ~g.threw THEN [kind |-> "report", message |-> "", text |-> g.text]
  ELSE [kind |-> "placeholder", message |-> CouldNotCallText, text |-> NoText]

\* lines 239, 243-247: the text returned for the outcome g of readGrep
readText(g) ==
  IF g.threw THEN [kind |-> "placeholder", message |-> CouldNotCallText, text |-> NoText]
  ELSE IF g.text.some THEN [kind |-> "report", message |-> "", text |-> g.text]
  ELSE [kind |-> "placeholder", message |-> NoResultsText, text |-> NoText]

\* lines 249-259; meta.size (text.length) is left at 0
readFile(name, g) ==
  [data |-> readText(g),
   meta |-> [name |-> name, contentType |-> "text/markdown", size |-> 0,
             created |-> 0, lastModified |-> 0, perm |-> "ro"]]

\* lines 236-260
readFileGrepResult(name, args, config, res) == readFile(name, readGrep(args, config, res))

\* line 228
savedText(text) == [written |-> TRUE, meta |-> "#meta", text |-> text]

\* line 221
saveResultsOf(config) == config.saveResults = "true"

-----------------------------------------------------------------------------
(* Inputs                                                                  *)

NoSurround == [kind |-> "unset", left |-> <<>>, right |-> <<>>]
SurroundOff == [kind |-> "false", left |-> <<>>, right |-> <<>>]
SurroundLeftOnly == [kind |-> "object", left |-> <<"[">>, right |-> <<>>]
NoIgnore == [set |-> FALSE, list |-> <<>>]
Ignore(list) == [set |-> TRUE, list |-> list]

Config(smartCase, surround, saveResults, ignoreFolders) ==
  [smartCase |-> smartCase, surround |-> surround, saveResults |-> saveResults,
   ignoreFolders |-> ignoreFolders]

DefaultConfig == Config("unset", NoSurround, "unset", NoIgnore)

Throws == [kind |-> "throw", stdout |-> <<>>]
NoResult == [kind |-> "null", stdout |-> <<>>]
Stdout(text) == [kind |-> "ok", stdout |-> text]

NoHandler == [name |-> "", prompt |-> <<>>, from |-> <<>>, issued |-> NoArguments,
              loaded |-> FALSE, config |-> DefaultConfig, res |-> NoResult]

\* the lines of one document group, each ended by a newline
RECURSIVE unlines(_)
unlines(ls) == IF ls = <<>> THEN <<>> ELSE Head(ls) \o <<NL>> \o unlines(Tail(ls))

\* git grep --heading --break: groups separated by an empty line
RECURSIVE groups(_)
groups(gs) ==
  IF gs = <<>> THEN <<>>
  ELSE IF Len(gs) = 1 THEN unlines(gs[1])
  ELSE unlines(gs[1]) \o <<NL>> \o groups(Tail(gs))

PageNX == <<"n", "/", "x">>
PageHome == <<"h", "o", "m", "e">>
FolderN == <<"n", "/">>
Root == <<".">>

OutOne == groups(<< <<PageNX \o DotMd, <<"3", ":", "2", ":", "b", "a">>>> >>)
OutReserved ==
  groups(<< <<resultPageSaved \o DotMd, <<"1", ":", "1", ":", "a">>>>,
            <<PageNX \o <<".", "t", "x", "t">>, <<"1", ":", "1", ":", "a">>>> >>)

\* inputs of the handlers
Prompts == {<<>>, <<"a">>}
CurrentPages == {PageNX, PageHome}
IgnoreN == Ignore(<< <<"n", "/", "*">> >>)
Configs ==
  {Config("unset", NoSurround, sr, ig) : sr \in {"unset", "true"}, ig \in {NoIgnore, IgnoreN}}
  \cup {Config("false", NoSurround, sr, NoIgnore) : sr \in {"false", "true"}}
Results == {Throws, NoResult, Stdout(<<>>), Stdout(OutOne), Stdout(OutReserved)}

-----------------------------------------------------------------------------
(* The handlers                                                            *)

Init ==
  /\ datastore \in {NoArguments, Arguments(Undefined, FALSE, Root),
                    Arguments(Undefined, TRUE, Root)}
  /\ handler = NoHandler
  /\ grepRun = NoGrep
  /\ navigated = <<>>
  /\ replaced = NoWrite
  /\ served = NoFile
  /\ fault = FALSE

\* lines 213-234.  Navigating to the virtual page makes the host load it,
\* which it does through readFileGrepResult.
openGrep(name, from, pattern, literal, folder, config, res) ==
  /\ handler' = [name |-> name, prompt |-> pattern, from |-> from,
                 issued |-> Arguments(pattern, literal, folder), loaded |-> TRUE,
                 config |-> config, res |-> res]
  /\ IF saveResultsOf(config)
     THEN
       LET g == grep(pattern, literal, folder, config, res)
       IN  /\ grepRun' = g
           /\ fault' = g.threw
           /\ IF ~g.threw /\ g.text.some
              THEN /\ navigated' = resultPageSaved
                   /\ replaced' = savedText(g.text)
              ELSE /\ navigated' = <<>>
                   /\ replaced' = NoWrite
           /\ served' = NoFile
           /\ UNCHANGED datastore
     ELSE
       LET args == Arguments(pattern, literal, folder)
           g    == readGrep(args, config, res)
       IN  /\ datastore' = args
           /\ navigated' = resultPageVirtual
           /\ served' = readFile(resultPageVirtual, g)
           /\ grepRun' = g
           /\ fault' = FALSE
           /\ replaced' = NoWrite

\* lines 281-283 and the like: the prompt returned nothing
noPattern(name, from) ==
  /\ handler' = [NoHandler EXCEPT !.name = name, !.from = from]
  /\ grepRun' = NoGrep
  /\ navigated' = <<>>
  /\ replaced' = NoWrite
  /\ served' = NoFile
  /\ fault' = FALSE
  /\ UNCHANGED datastore

\* lines 298, 303 and 309, 314
currentFolder(pageName) ==
  LET folderPath == Take(pageName, lastIndexOf(pageName, <<"/">>) + 1)
  IN  IF folderPath # <<>> THEN folderPath ELSE Root

\* the literal argument each entry point passes to openGrep
literalOfSearchText == TRUE
literalOfSearchRegex == FALSE
literalOfSearchRegexInFolder == FALSE
literalOfSearchTextInFolder == FALSE

\* lines 279-285
searchText(pattern, config, res) ==
  IF pattern = <<>> THEN noPattern("searchText", <<>>)
  ELSE openGrep("searchText", <<>>, pattern, literalOfSearchText, Root, config, res)

\* lines 287-293
searchRegex(pattern, config, res) ==
  IF pattern = <<>> THEN noPattern("searchRegex", <<>>)
  ELSE openGrep("searchRegex", <<>>, pattern, literalOfSearchRegex, Root, config, res)

\* lines 295-304
searchRegexInFolder(pageName, pattern, config, res) ==
  IF pattern = <<>> THEN noPattern("searchRegexInFolder", pageName)
  ELSE openGrep("searchRegexInFolder", pageName, pattern, literalOfSearchRegexInFolder,
                currentFolder(pageName), config, res)

\* lines 306-315
searchTextInFolder(pageName, pattern, config, res) ==
  IF pattern = <<>> THEN noPattern("searchTextInFolder", pageName)
  ELSE openGrep("searchTextInFolder", pageName, pattern, literalOfSearchTextInFolder,
                currentFolder(pageName), config, res)

\* the host reads the virtual page (lines 236-260)
ReadFileGrepResult(config, res) ==
  LET g == readGrep(datastore, config, res)
  IN  /\ handler' = [NoHandler EXCEPT !.name = "readFileGrepResult", !.loaded = TRUE,
                                       !.config = config, !.res = res]
      /\ served' = readFile(resultPageVirtual, g)
      /\ grepRun' = g
      /\ fault' = FALSE
      /\ navigated' = <<>>
      /\ replaced' = NoWrite
      /\ UNCHANGED datastore

\* the host writes the virtual page (lines 262-267)
WriteFileGrepResult ==
  /\ handler' = [NoHandler EXCEPT !.name = "writeFileGrepResult"]
  /\ served' = [data |-> NoData, meta |-> writeFileGrepResult(resultPageVirtual)]
  /\ grepRun' = NoGrep
  /\ navigated' = <<>>
  /\ replaced' = NoWrite
  /\ fault' = FALSE
  /\ UNCHANGED datastore

Next ==
  \/ \E p \in Prompts, c \in Configs, r \in Results : searchText(p, c, r)
  \/ \E p \in Prompts, c \in Configs, r \in Results : searchRegex(p, c, r)
  \/ \E n \in CurrentPages, p \in Prompts, c \in Configs, r \in Results :
       searchRegexInFolder(n, p, c, r)
  \/ \E n \in CurrentPages, p \in Prompts, c \in Configs, r \in Results :
       searchTextInFolder(n, p, c, r)
  \/ \E c \in Configs, r \in Results : ReadFileGrepResult(c, r)
  \/ WriteFileGrepResult

Spec == Init /\ [][Next]_vars

-----------------------------------------------------------------------------
(* grep on its own: the search-and-report engine applied to generated      *)
(* queries, configurations and tool outputs                                *)

Input(pattern, literal, folder, config, res) ==
  [pattern |-> pattern, literal |-> literal, folder |-> folder, config |-> config,
   res |-> res]

\* context texts of hit lines
CtxAlphabet == {"a", "A", "."}
Contexts == UNION {[1..n -> CtxAlphabet] : n \in 0..MaxCtxLen}

\* location prefixes as git prints them: decimal, no leading zero
Locations == {<<"3", ":", "1", ":">>, <<"1", "2", ":", "1", "0", ":">>}
HitLines == {loc \o ctx : loc \in Locations, ctx \in Contexts}

RefinePatterns == {<<"a">>, <<"A">>, <<"a", "a">>, <<".">>}
RefineConfigs ==
  {Config(sc, su, "unset", NoIgnore) :
     sc \in {"unset", "true", "false"}, su \in {NoSurround, SurroundOff, SurroundLeftOnly}}
RefineInputs ==
  {Input(p, l, Root, c, Stdout(groups(<< <<PageNX \o DotMd, line>> >>))) :
     p \in RefinePatterns, l \in BOOLEAN, c \in RefineConfigs, line \in HitLines}

\* headers of document groups; the tool prints every file once
Headers ==
  { PageNX \o DotMd,
    <<".", "/">> \o PageNX \o DotMd,
    <<"n", "\\", "x">> \o DotMd,
    <<"n", "n", "/", "x">> \o DotMd,
    <<"n", "/", "m", "/", "x">> \o DotMd,
    <<"x">> \o DotMd,
    <<".", "h", "/", "x">> \o DotMd,
    PageNX \o <<".", "t", "x", "t">>,
    resultPageSaved \o DotMd,
    resultPageVirtual \o DotMd }
OneHit == <<"1", ":", "1", ":", "a">>
FilterOutputs ==
  {groups(<< <<h, OneHit>> >>) : h \in Headers}
  \cup {groups(<< <<h[1], OneHit>>, <<h[2], OneHit>> >>) :
          h \in {hh \in Headers \X Headers : pageOf(hh[1]) # pageOf(hh[2])}}
IgnoreLists ==
  { NoIgnore,
    Ignore(<<>>),
    Ignore(<< FolderN >>),
    Ignore(<< <<"n">> >>),
    Ignore(<< <<"n", "/", "*">> >>),
    Ignore(<< <<".", "/", "n", "/", "*">> >>),
    Ignore(<< <<".", "/", "*">> >>),
    Ignore(<< <<"n", "\\", "m", "\\">>, <<"x">> >>),
    Ignore(<< <<>> >>) }
FilterInputs ==
  {Input(<<"a">>, TRUE, f, Config("unset", NoSurround, "unset", ig), Stdout(out)) :
     f \in {Root, FolderN}, ig \in IgnoreLists, out \in FilterOutputs}

\* bodies with 0, 1, 2 and 3 occurrences of "a"
RankBodies ==
  { << <<"1", ":", "1", ":", ".">> >>,
    << <<"1", ":", "1", ":", "a">> >>,
    << <<"1", ":", "2", ":", ".", "a">>, <<"-", "-">>, <<"2", ":", "1", ":", "a">> >>,
    << <<"1", ":", "1", ":", "a", "a">>, <<"2", ":", "3", ":", ".", ".", "a">> >> }
RankHeader(i) == <<"d", Digits[i + 1]>> \o DotMd
RankOutputs ==
  {groups([i \in 1..Len(bodies) |-> <<RankHeader(i)>> \o bodies[i]]) :
     bodies \in UNION {[1..k -> RankBodies] : k \in 1..MaxDocs}}
RankInputs ==
  {Input(<<"a">>, TRUE, Root, DefaultConfig, Stdout(out)) : out \in RankOutputs}

FailInputs ==
  {Input(<<"a">>, l, f, DefaultConfig, r) :
     l \in BOOLEAN, f \in {Root, FolderN}, r \in {Throws, NoResult, Stdout(<<>>)}}

GrepInputs == RefineInputs \cup FilterInputs \cup RankInputs \cup FailInputs

\* grep has been entered and has logged its arguments (line 59); the
\* configuration and the tool's answer are the ones the environment will give
GrepInit ==
  /\ \E in \in GrepInputs :
       /\ handler = [NoHandler EXCEPT !.name = "grep", !.config = in.config,
                                      !.res = in.res]
       /\ grepRun = [NoGrep EXCEPT !.log = <<[pattern |-> in.pattern,
                                             literal |-> in.literal,
                                             folder |-> in.folder]>>]
  /\ datastore = NoArguments
  /\ navigated = <<>>
  /\ replaced = NoWrite
  /\ served = NoFile
  /\ fault = FALSE

\* lines 61-209
Grep ==
  /\ handler.name = "grep"
  /\ ~handler.loaded
  /\ LET in == grepRun.log[1]
         g  == grep(in.pattern, in.literal, in.folder, handler.config, handler.res)
     IN  /\ grepRun' = g
         /\ fault' = g.threw
  /\ handler' = [handler EXCEPT !.loaded = TRUE]
  /\ UNCHANGED <<datastore, navigated, replaced, served>>

GrepNext == Grep

GrepSpec == GrepInit /\ [][GrepNext]_vars

-----------------------------------------------------------------------------
(* Properties of grep                                                      *)

\* a grep call has run to its end and returned a report
Reported == handler.loaded /\ grepRun.log # <<>> /\ grepRun.text.some

Query == grepRun.log[1]

\* the document groups of the tool's stdout, each a sequence of lines
GroupsOf(stdout) ==
  LET parts == split(stdout, <<NL, NL>>)
  IN  [k \in 1..Len(parts) |-> split(parts[k], <<NL>>)]

ToolGroups == GroupsOf(handler.res.stdout)

HeadingLines(text) == SelectSeq(text.body, LAMBDA ln : ln.line = "heading")
HeadingPages(text) == {text.body[k].page : k \in {j \in 1..Len(text.body) : text.body[j].line = "heading"}}

\* the folder of a group header, as compared with the ignore patterns
FolderOfHeader(header) == normalizePath(folderPathOf(pageOf(header)))

\* an ignoreFolders entry, taken as written, covers the folder
EntryCovers(entry, folder) ==
  \/ folder = entry
  \/ endsWith(entry, <<"/", "*">>) /\ startsWith(folder, Take(entry, Len(entry) - 2))

IgnoredAsWritten(folder, config) ==
  /\ config.ignoreFolders.set
  /\ \E k \in 1..Len(config.ignoreFolders.list) :
       EntryCovers(config.ignoreFolders.list[k], folder)

IgnoredNormalized(folder, config) ==
  /\ config.ignoreFolders.set
  /\ \E k \in 1..Len(config.ignoreFolders.list) :
       EntryCovers(normalizePath(config.ignoreFolders.list[k]), folder)

\* C1, as stated: a document whose folder equals an ignoreFolders entry, or
\* starts with an entry minus its trailing "/*", is never a heading of the
\* returned report.
C1_IgnoredNeverReported ==
  Reported =>
    \A k \in 1..Len(ToolGroups) :
      LET header == ToolGroups[k][1]
      IN  (endsWith(header, DotMd)
           /\ IgnoredAsWritten(FolderOfHeader(header), handler.config))
          => pageOf(header) \notin HeadingPages(grepRun.text)

\* C1, amended: the same with every ignoreFolders entry normalized first
\* (backslashes to slashes, one leading "./" removed).
C1_NormalizedIgnoredNeverReported ==
  Reported =>
    \A k \in 1..Len(ToolGroups) :
      LET header == ToolGroups[k][1]
      IN  (endsWith(header, DotMd)
           /\ IgnoredNormalized(FolderOfHeader(header), handler.config))
          => pageOf(header) \notin HeadingPages(grepRun.text)

\* an ignored document with a hit, beside a document that is reported
C1_Witness ==
  /\ Reported
  /\ HeadingPages(grepRun.text) # {}
  /\ \E k \in 1..Len(ToolGroups) :
       /\ endsWith(ToolGroups[k][1], DotMd)
       /\ Len(ToolGroups[k]) >= 2 /\ locationMatch(ToolGroups[k][2])
       /\ IgnoredNormalized(FolderOfHeader(ToolGroups[k][1]), handler.config)
       /\ handler.config.ignoreFolders.list = << <<"n", "/", "*">> >>

\* the case sensitivity the claim prescribes
ShouldBeCaseSensitive(pattern, config) ==
  IF config.smartCase = "false" THEN TRUE ELSE pattern # toLowerCase(pattern)

\* C5: case sensitivity is decided by config.smartCase and the pattern alone
\* (smartCase false: always sensitive; otherwise sensitive iff the pattern
\* differs from its lowercase form), and the same flag sets the tool's
\* --ignore-case argument and the inner regex's "i" flag.
C5_CaseSensitivity ==
  (handler.loaded /\ grepRun.log # <<>>) =>
    LET cs == ShouldBeCaseSensitive(Query.pattern, handler.config)
    IN  /\ grepRun.shell.called => (grepRun.shell.ignoreCase <=> ~cs)
        /\ grepRun.regex # NoRegex => (grepRun.regex.flags = IF cs THEN "g" ELSE "gi")

C5_Witness ==
  /\ handler.loaded /\ grepRun.log # <<>>
  /\ handler.config.smartCase = "false"
  /\ Query.pattern = <<"a">>
  /\ grepRun.shell.called /\ ~grepRun.shell.ignoreCase
  /\ grepRun.regex.flags = "g"

\* the text after the second colon of a hit line, and the number before the first
SecondColon(line) ==
  LET first == indexOf(line, <<":">>)
  IN  first + 1 + indexOf(Drop(line, first + 1), <<":">>)
AfterSecondColon(line) == Drop(line, SecondColon(line) + 1)
LineNumber(line) == parseInt(Take(line, indexOf(line, <<":">>)))

\* the pattern occurs in ctx at 0-based offset s
OccursAt(ctx, s, pattern, literal, caseSensitive) ==
  /\ s + Len(pattern) <= Len(ctx)
  /\ \A k \in 1..Len(pattern) :
       \/ ~literal /\ pattern[k] = "."
       \/ IF caseSensitive THEN pattern[k] = ctx[s + k]
          ELSE toLowerChar(pattern[k]) = toLowerChar(ctx[s + k])

\* the report's lines for one hit line of one document
ItemsOf(text, pageName, lineNum) ==
  SelectSeq(text.body,
            LAMBDA ln : ln.line = "item" /\ ln.page = pageName /\ ln.lineNum = lineNum)

\* the hit lines of the documents that are reported: <<group, line>> indices
ReportedHitLines ==
  {gl \in UNION {{<<k, j>> : j \in 2..Len(ToolGroups[k])} : k \in 1..Len(ToolGroups)} :
     /\ endsWith(ToolGroups[gl[1]][1], DotMd)
     /\ pageOf(ToolGroups[gl[1]][1]) \in HeadingPages(grepRun.text)
     /\ locationMatch(ToolGroups[gl[1]][gl[2]])}

\* C6: every accepted hit line "<line>:<col>:<context>" yields exactly one
\* Match per non-overlapping occurrence of the pattern in <context>, left to
\* right; each has lineNum = <line>, columnNum = start offset + 1, and the
\* context before + left marker + matched text + right marker + after; the
\* column hint plays no part.
C6_OneMatchPerOccurrence ==
  Reported =>
    /\ \A b \in 1..Len(grepRun.text.body) :
         grepRun.text.body[b].line = "item" =>
           \E gl \in ReportedHitLines :
             /\ pageOf(ToolGroups[gl[1]][1]) = grepRun.text.body[b].page
             /\ LineNumber(ToolGroups[gl[1]][gl[2]]) = grepRun.text.body[b].lineNum
    /\ \A gl \in ReportedHitLines :
      LET line == ToolGroups[gl[1]][gl[2]]
          ctx  == AfterSecondColon(line)
          pat  == Query.pattern
          cs   == ShouldBeCaseSensitive(pat, handler.config)
          its  == ItemsOf(grepRun.text, pageOf(ToolGroups[gl[1]][1]), LineNumber(line))
          occ(s) == OccursAt(ctx, s, pat, Query.literal, cs)
      IN  /\ \A i \in 1..Len(its) :
               LET s == its[i].columnNum - 1
               IN  /\ s >= 0 /\ occ(s)
                   /\ its[i].context =
                        Take(ctx, s) \o surroundLeftOf(handler.config)
                        \o SubSeq(ctx, s + 1, s + Len(pat))
                        \o surroundRightOf(handler.config) \o Drop(ctx, s + Len(pat))
          /\ \A i \in 1..(Len(its) - 1) :
               its[i + 1].columnNum >= its[i].columnNum + Len(pat)
          /\ \A p \in 0..Len(ctx) :
               occ(p) => \E i \in 1..Len(its) :
                           /\ its[i].columnNum - 1 <= p
                           /\ p < its[i].columnNum - 1 + Len(pat)

\* a line with two occurrences, neither at the hinted column 10
C6_Witness ==
  /\ Reported
  /\ \E gl \in ReportedHitLines :
       LET line == ToolGroups[gl[1]][gl[2]]
           its  == ItemsOf(grepRun.text, pageOf(ToolGroups[gl[1]][1]), LineNumber(line))
       IN  /\ LineNumber(line) = 12
           /\ Len(its) = 2
           /\ its[1].columnNum = 1 /\ its[2].columnNum = 3

\* the position of a reported page's group in the tool's output
GroupIndex(pageName) ==
  CHOOSE k \in 1..Len(ToolGroups) :
    endsWith(ToolGroups[k][1], DotMd) /\ pageOf(ToolGroups[k][1]) = pageName

\* the position, in its group, of the hit line a report line refers to
LineIndex(item) ==
  LET g == ToolGroups[GroupIndex(item.page)]
  IN  CHOOSE j \in 2..Len(g) : locationMatch(g[j]) /\ LineNumber(g[j]) = item.lineNum

\* the heading a report line stands under
HeadingAbove(text, b) ==
  LET above == {a \in 1..b : text.body[a].line = "heading"}
  IN  text.body[CHOOSE a \in above : \A a2 \in above : a2 <= a]

\* C7: documents are rendered by descending match count; documents with
\* equal counts keep the order of the tool's output; the matches of a
\* document keep discovery order (line of the output, then column).
C7_RankedStable ==
  Reported =>
    LET text == grepRun.text
        H    == HeadingLines(text)
        items == {b \in 1..Len(text.body) : text.body[b].line = "item"}
    IN  /\ \A i \in 1..Len(H), j \in 1..Len(H) :
             i < j => /\ H[i].count >= H[j].count
                      /\ H[i].count = H[j].count
                           => GroupIndex(H[i].page) < GroupIndex(H[j].page)
        /\ \A i \in 1..Len(H) :
             H[i].count = Cardinality({b \in items : text.body[b].page = H[i].page})
        /\ \A b \in items : HeadingAbove(text, b).page = text.body[b].page
        /\ \A a \in items, b \in items :
             (a < b /\ text.body[a].page = text.body[b].page)
               => \/ LineIndex(text.body[a]) < LineIndex(text.body[b])
                  \/ /\ LineIndex(text.body[a]) = LineIndex(text.body[b])
                     /\ text.body[a].columnNum < text.body[b].columnNum

\* a later document overtakes an earlier one, and two documents tie
C7_Witness ==
  /\ Reported
  /\ LET H == HeadingLines(grepRun.text)
     IN  /\ \E i \in 1..Len(H), j \in 1..Len(H) :
               i < j /\ GroupIndex(H[i].page) > GroupIndex(H[j].page)
         /\ \E i \in 1..Len(H), j \in 1..Len(H) :
               i < j /\ H[i].count = H[j].count /\ H[i].count >= 1

\* C8: no heading of a report shows a document with zero matches.
C8_NoEmptyDocument ==
  Reported => \A k \in 1..Len(grepRun.text.body) :
                grepRun.text.body[k].line = "heading" => grepRun.text.body[k].count >= 1

-----------------------------------------------------------------------------
(* Properties of the handlers                                              *)

SearchNames == {"searchText", "searchRegex", "searchRegexInFolder", "searchTextInFolder"}

\* an entry point got a pattern and called openGrep
Issued == handler.name \in SearchNames /\ handler.loaded

\* the folder of a page: its name up to and including the last "/", "." without one
FolderOfPage(pageName) ==
  IF lastIndexOf(pageName, <<"/">>) = -1 THEN Root
  ELSE Take(pageName, lastIndexOf(pageName, <<"/">>) + 1)

NamedLiteral(name) == name \in {"searchText", "searchTextInFolder"}
NamedFolder(name, from) ==
  IF name \in {"searchText", "searchRegex"} THEN Root ELSE FolderOfPage(from)

\* C2: each entry point issues the Query it names (searchText literal in ".",
\* searchRegex pattern in ".", searchTextInFolder literal in the current
\* page's folder, searchRegexInFolder pattern in the current page's folder);
\* with an empty prompt nothing is issued: no session write, no navigation,
\* no search.
C2_EntryPointsIssueNamedQuery ==
  [][handler'.name \in SearchNames =>
       IF ~handler'.loaded
       THEN /\ datastore' = datastore
            /\ navigated' = <<>>
            /\ replaced' = NoWrite
            /\ grepRun' = NoGrep
       ELSE /\ handler'.prompt # <<>>
            /\ handler'.issued = Arguments(handler'.prompt, NamedLiteral(handler'.name),
                                           NamedFolder(handler'.name, handler'.from))
            /\ grepRun'.log = <<[pattern |-> handler'.prompt,
                                 literal |-> NamedLiteral(handler'.name),
                                 folder  |-> NamedFolder(handler'.name, handler'.from)]>>]_vars

\* the tool threw during a query issued through openGrep
FailedQuery == Issued /\ grepRun.shell.result = "throw"

IsGitError(notes) == \E k \in 1..Len(notes) : notes[k] = gitErrorNote

\* what a read of the virtual page returns
VirtualContent(args, config, res) ==
  readFileGrepResult(resultPageVirtual, args, config, res).data

NoResultsData == [kind |-> "placeholder", message |-> NoResultsText, text |-> NoText]

\* C3, as stated: when the tool throws during a query issued through
\* openGrep, in either mode, there is an error notification, nothing is
\* written to or navigated to on the saved page, no error escapes, and a
\* read of the virtual page returns what it returned before the query.
C3_ToolFailureChangesNoContent ==
  [][FailedQuery' =>
       /\ IsGitError(grepRun'.flashed)
       /\ replaced' = NoWrite
       /\ navigated' # resultPageSaved
       /\ ~fault'
       /\ VirtualContent(datastore', handler'.config, handler'.res)
            = VirtualContent(datastore, handler'.config, handler'.res)]_vars

\* C3, amended: the virtual page keeps its content in persisted mode only; in
\* virtual mode the failed query has replaced the stored one and the page
\* reads "Did not produce any results".
C3_ToolFailure ==
  [][FailedQuery' =>
       /\ IsGitError(grepRun'.flashed)
       /\ replaced' = NoWrite
       /\ navigated' # resultPageSaved
       /\ ~fault'
       /\ IF handler'.config.saveResults = "true"
          THEN /\ datastore' = datastore
               /\ navigated' = <<>>
               /\ served' = NoFile
          ELSE /\ datastore' = handler'.issued
               /\ served'.data = NoResultsData
               /\ served'.meta.perm = "ro"]_vars

\* the tool threw in virtual mode, on the first query ever
C3_Witness ==
  /\ FailedQuery
  /\ handler.config.saveResults # "true"
  /\ datastore = handler.issued
  /\ served.data = NoResultsData
  /\ IsGitError(grepRun.flashed)

QueryOf(args) == [pattern |-> args.pattern, literal |-> args.literal, folder |-> args.folder]

\* the last handler read the virtual page
ReadHappened == served.data.kind # "none"

\* C4, as stated: after an openGrep call, whatever saveResults is, the stored
\* query is that call's (pattern, literal, folder); a read replays the stored
\* query.
C4_SessionHoldsLastQuery ==
  /\ Issued => datastore = handler.issued
  /\ (ReadHappened /\ datastore.set) => grepRun.log = <<QueryOf(datastore)>>

\* C4, amended: only an openGrep call with saveResults off stores its query;
\* every other step leaves the stored query alone; a read replays exactly
\* the stored query through grep, with the tool's answer of that moment.
C4_SessionHoldsLastUnsavedQuery ==
  [][/\ IF Issued' /\ handler'.config.saveResults # "true"
        THEN datastore' = handler'.issued
        ELSE datastore' = datastore
     /\ (ReadHappened' /\ datastore'.set) =>
          /\ grepRun'.log = <<QueryOf(datastore')>>
          /\ served'.data = readText(grep(datastore'.pattern, datastore'.literal,
                                          datastore'.folder, handler'.config,
                                          handler'.res))]_vars

\* a persisted query ran while the session still holds an earlier query
C4_Witness ==
  /\ Issued
  /\ handler.config.saveResults = "true"
  /\ datastore.set /\ datastore.pattern # Undefined
  /\ datastore # handler.issued
  /\ grepRun.log = <<QueryOf(handler.issued)>>

\* a group that does not reach the report
Dropped(header, config) ==
  \/ ~endsWith(header, DotMd)
  \/ pageOf(header) \in {resultPageSaved, resultPageVirtual}
  \/ IgnoredNormalized(FolderOfHeader(header), config)

\* the tool printed something for a well-formed query, and every group is dropped
AllDropped ==
  /\ handler.loaded
  /\ grepRun.log # <<>> /\ Query.pattern # Undefined
  /\ grepRun.shell.result = "ok"
  /\ handler.res.stdout # <<>>
  /\ \A k \in 1..Len(ToolGroups) : Dropped(ToolGroups[k][1], handler.config)

\* C9, as stated: when every reported document is dropped, grep returns
\* nothing after a "produced no results" notification, the saved page is not
\* overwritten and the virtual page reads the no-results placeholder.
C9_AllDroppedIsNoResults ==
  AllDropped =>
    /\ ~grepRun.text.some
    /\ grepRun.flashed = <<noResultsNote(Query.pattern, Query.literal)>>
    /\ replaced = NoWrite
    /\ ReadHappened => served.data = NoResultsData

\* C9, amended: grep returns a report without any document heading and
\* notifies nothing; in persisted mode that report overwrites the saved page,
\* in virtual mode it is what the virtual page reads.
C9_AllDroppedIsEmptyReport ==
  AllDropped =>
    /\ grepRun.text.some
    /\ grepRun.text.body = <<>>
    /\ grepRun.flashed = <<>>
    /\ IF Issued /\ handler.config.saveResults = "true"
       THEN /\ replaced = [written |-> TRUE, meta |-> "#meta", text |-> grepRun.text]
            /\ navigated = resultPageSaved
       ELSE /\ replaced = NoWrite
            /\ served.data = [kind |-> "report", message |-> "", text |-> grepRun.text]

\* matches only under n/, ignoreFolders ["n/*"], persisted mode
C9_Witness ==
  /\ AllDropped
  /\ Issued
  /\ handler.config.saveResults = "true"
  /\ handler.config.ignoreFolders.list = << <<"n", "/", "*">> >>
  /\ handler.res.stdout = OutOne
  /\ replaced.written

\* C10: a read with no stored query, or with a stored query that lacks its
\* pattern, lets no fault escape and returns read-only placeholder text, not
\* a report; a write is accepted and changes neither the stored query nor
\* what is read.
C10_MalformedSessionIsPlaceholder ==
  [][/\ (handler'.name = "readFileGrepResult"
         /\ (~datastore.set \/ datastore.pattern = Undefined))
          => /\ ~fault'
             /\ served'.meta.perm = "ro"
             /\ served'.data.kind = "placeholder"
     /\ handler'.name = "writeFileGrepResult"
          => /\ ~fault'
             /\ datastore' = datastore
             /\ served'.meta.perm = "ro"
             /\ \A c \in Configs, r \in Results :
                  VirtualContent(datastore', c, r) = VirtualContent(datastore, c, r)]_vars

====
